---- MODULE Spec2Model ----
(***************************************************************************)
(* Client-side session controller (AuthProvider), the Apollo error link    *)
(* and its 401 refresh handler, against a token server that issues and     *)
(* rotates access/refresh pairs.                                           *)
(*                                                                         *)
(* Values.  A user is a number (its id); a token is a number:              *)
(*   refresh token of user u, session version v  =  10*u + v               *)
(*   access  token of user u, session version v  = 100 + 10*u + v          *)
(* localStorage.getItem's null is 0 for the token keys and << >> for the   *)
(* user_data key; a null object is the record Null; a null string is       *)
(* NullStr.                                                                *)
(***************************************************************************)
EXTENDS Integers, Sequences, FiniteSets, Bags, TLC

\* ---------------------------------------------------------------- bounds
MaxVersion == 3
MaxCalls == 2

Users == {1}
Paths == {"/login", "/register", "/dashboard"}

\* ---------------------------------------------------------------- values
Null == [null |-> TRUE]
NullStr == "<null>"
NoItem == 0
NoData == << >>
NoCall == [op |-> "none"]

RefreshTok(u, v) == 10 * u + v
AccessTok(u, v) == 100 + 10 * u + v
UserOf(tok) == (tok % 100) \div 10

UserRole(u) == IF u = 1 THEN "USER" ELSE "ADMIN"
UserName(u) == IF u = 1 THEN "alice" ELSE "bob"
UserRec(u) == [id |-> u, username |-> UserName(u), role |-> UserRole(u), status |-> "ACTIVE"]

\* JSON.stringify / JSON.parse of a User
JSONstringify(user) == <<user.id, user.username, user.role, user.status>>
JSONparses(s) == Len(s) = 4
JSONparse(s) == [id |-> s[1], username |-> s[2], role |-> s[3], status |-> s[4]]

\* ---------------------------------------------------------------- reducer
initialState ==
  [isAuthenticated |-> FALSE, user |-> Null, tokens |-> Null,
   loading |-> FALSE, error |-> NullStr]

\* the reducer with a LOGIN_ERROR case that drops its payload
authReducerErrorDropped(s, a) ==
  CASE a.type = "LOGIN_START" ->
         [s EXCEPT !.loading = TRUE, !.error = NullStr]
    [] a.type = "LOGIN_SUCCESS" ->
         [s EXCEPT !.loading = FALSE, !.isAuthenticated = TRUE,
                   !.user = a.payload.user, !.tokens = a.payload.tokens,
                   !.error = NullStr]
    [] a.type = "LOGIN_ERROR" ->
         [s EXCEPT !.loading = FALSE, !.isAuthenticated = FALSE,
                   !.user = Null, !.tokens = Null, !.error = NullStr]
    [] a.type = "LOGOUT" -> initialState
    [] a.type = "SET_LOADING" -> [s EXCEPT !.loading = a.payload]
    [] a.type = "SET_ERROR" -> [s EXCEPT !.error = a.payload]
    [] a.type = "UPDATE_USER" -> [s EXCEPT !.user = a.payload]
    [] OTHER -> s

\* the reducer with a LOGIN_START case that starts from the initial state
authReducerStartResets(s, a) ==
  CASE a.type = "LOGIN_START" ->
         [initialState EXCEPT !.loading = TRUE]
    [] a.type = "LOGIN_SUCCESS" ->
         [s EXCEPT !.loading = FALSE, !.isAuthenticated = TRUE,
                   !.user = a.payload.user, !.tokens = a.payload.tokens,
                   !.error = NullStr]
    [] a.type = "LOGIN_ERROR" ->
         [s EXCEPT !.loading = FALSE, !.isAuthenticated = FALSE,
                   !.user = Null, !.tokens = Null, !.error = a.payload]
    [] a.type = "LOGOUT" -> initialState
    [] a.type = "SET_LOADING" -> [s EXCEPT !.loading = a.payload]
    [] a.type = "SET_ERROR" -> [s EXCEPT !.error = a.payload]
    [] a.type = "UPDATE_USER" -> [s EXCEPT !.user = a.payload]
    [] OTHER -> s

authReducer(s, a) ==
  CASE a.type = "LOGIN_START" ->
         [s EXCEPT !.loading = TRUE, !.error = NullStr]
    [] a.type = "LOGIN_SUCCESS" ->
         [s EXCEPT !.loading = FALSE, !.isAuthenticated = TRUE,
                   !.user = a.payload.user, !.tokens = a.payload.tokens,
                   !.error = NullStr]
    [] a.type = "LOGIN_ERROR" ->
         [s EXCEPT !.loading = FALSE, !.isAuthenticated = FALSE,
                   !.user = Null, !.tokens = Null, !.error = a.payload]
    [] a.type = "LOGOUT" -> initialState
    [] a.type = "SET_LOADING" -> [s EXCEPT !.loading = a.payload]
    [] a.type = "SET_ERROR" -> [s EXCEPT !.error = a.payload]
    [] a.type = "UPDATE_USER" -> [s EXCEPT !.user = a.payload]
    [] OTHER -> s

\* ------------------------------------------------- client memory + storage
\* A client snapshot c is [state |-> AuthState, ls |-> localStorage].
\* besides the three session keys, localStorage holds App's darkTheme
\* preference, the JSON text of a boolean
NoTheme == "<absent>"
emptyStorage ==
  [access_token |-> NoItem, refresh_token |-> NoItem, user_data |-> NoData,
   darkTheme |-> NoTheme]

\* App's first render reads the saved theme (false when there is none) and
\* its effect writes it back
savedTheme(store) == IF store.darkTheme # NoTheme THEN store.darkTheme ELSE "false"
AppMount(store) == [store EXCEPT !.darkTheme = savedTheme(store)]

dispatch(c, a) == [c EXCEPT !.state = authReducer(c.state, a)]

removeSessionKeys(ls) ==
  [ls EXCEPT !.access_token = NoItem, !.refresh_token = NoItem, !.user_data = NoData]

clearAuth(c) ==
  dispatch([c EXCEPT !.ls = removeSessionKeys(c.ls)], [type |-> "LOGOUT"])

storeAuth(c, user, tokens) ==
  dispatch([c EXCEPT !.ls = [c.ls EXCEPT !.access_token = tokens.accessToken,
                                         !.refresh_token = tokens.refreshToken,
                                         !.user_data = JSONstringify(user)]],
           [type |-> "LOGIN_SUCCESS", payload |-> [user |-> user, tokens |-> tokens]])

\* a clear() that removes nothing
localStorageKeepsAll(ls) == ls

localStorageClear(ls) == emptyStorage

VARIABLES state, ls, calls, srvVersion, srvStore, ev

vars == <<state, ls, calls, srvVersion, srvStore, ev>>

\* ---------------------------------------------------------------- requests
\* A request in flight: what the sender captured when it was sent, and the
\* server's answer once there is one.  bearer is the access token authLink
\* attached, kept for logout, the one operation whose server effect reads it.
\* superseded and raced are history flags: logout's clearAuth ran while the
\* request was pending; another refresh carrying the same refresh token was
\* answered with a new pair while the request was pending.
Call(op, who, rt, bearer, caller, user0, tokens0) ==
  [op |-> op, phase |-> "sent", who |-> who, rt |-> rt, bearer |-> bearer,
   caller |-> caller, user0 |-> user0, tokens0 |-> tokens0, resp |-> Null,
   superseded |-> FALSE, raced |-> FALSE]

AuthOps == {"login", "register", "connectWallet"}
RefreshOps == {"refreshTokens", "handleTokenRefresh"}
ApolloOps == AuthOps \cup {"refreshTokens", "logout", "query"}

\* the requests in flight are a bag: two identical requests can be pending
HasFree(cs) == BagCardinality(cs) < MaxCalls
Put(cs, c) == cs (+) SetToBag({c})
Take(cs, c) == cs (-) SetToBag({c})
NoCalls == EmptyBag
InFlight(ops) == {c \in BagToSet(calls) : c.op \in ops}

\* The authorization header authLink sets: 'Bearer <token>' or the empty
\* string.  NoHeader: the step sent no request through the link chain.
Bearer(token) == <<"Bearer ", token>>
EmptyHeader == << >>
NoHeader == <<"no request">>

\* mounted: the SessionState of the provider's first render when the step
\* loaded the page (before the checkAuth effect has run), else Null.
\* stored: what localStorage held when the step loaded the page, else Null.
Other ==
  [type |-> "other", call |-> NoCall, redirected |-> FALSE, authorization |-> NoHeader,
   mounted |-> Null, stored |-> Null]
Event(type, call, redirected) ==
  [type |-> type, call |-> call, redirected |-> redirected, authorization |-> NoHeader,
   mounted |-> Null, stored |-> Null]

\* ---------------------------------------------------------------- responses
DataResp(success, tokens, user, message) ==
  [kind |-> "data", success |-> success, tokens |-> tokens, user |-> user, message |-> message]
ErrorResp(kind) ==
  [kind |-> kind, success |-> FALSE, tokens |-> Null, user |-> Null, message |-> NullStr]
ErrorKinds == {"gqlUnauth", "http401", "netErr"}

Full(r) == r.kind = "data" /\ r.success /\ r.tokens # Null /\ r.user # Null

\* ---------------------------------------------------------------- server
DefaultExpiresIn == 1800

issue(u, v) ==
  [accessToken |-> AccessTok(u, v), refreshToken |-> RefreshTok(u, v),
   tokenType |-> "bearer", expiresIn |-> DefaultExpiresIn]

\* rotate that only decodes the presented token
rotateDecodesOnly(store, rt) ==
  /\ rt # NoItem
  /\ UserOf(rt) \in DOMAIN store

\* rotate's verdict: the presented token must be the one the store holds
rotateAccepts(store, rt) ==
  /\ rt # NoItem
  /\ UserOf(rt) \in DOMAIN store
  /\ store[UserOf(rt)] = rt

\* ---------------------------------------------------------------- client
\* authLink that takes the token from the provider's memory
authLinkFromMemory(c) ==
  IF c.state.tokens # Null THEN Bearer(c.state.tokens.accessToken) ELSE EmptyHeader

\* authLink: the header of a request entering the link chain
authLink(c) ==
  IF c.ls.access_token # NoItem THEN Bearer(c.ls.access_token) ELSE EmptyHeader

OnAuthPage(p) == p = "/login" \/ p = "/register"

\* errorLink with the 401 branch handled like the UNAUTHENTICATED branch
errorLinkClearsOn401(c, p, resp) ==
  IF resp.kind \in {"gqlUnauth", "http401"}
    THEN [c |-> [c EXCEPT !.ls = removeSessionKeys(c.ls)],
          redirect |-> ~OnAuthPage(p), handler |-> NoItem]
    ELSE [c |-> c, redirect |-> FALSE, handler |-> NoItem]

\* errorLink: what the Apollo error link does with an answer, before the
\* caller's promise settles.  handler is the refresh token handleTokenRefresh
\* sends (NoItem: no fetch started).
errorLink(c, p, resp) ==
  IF resp.kind = "gqlUnauth"
    THEN [c |-> [c EXCEPT !.ls = removeSessionKeys(c.ls)],
          redirect |-> ~OnAuthPage(p), handler |-> NoItem]
  ELSE IF resp.kind = "http401"
    THEN [c |-> c, redirect |-> c.ls.refresh_token = NoItem,
          handler |-> c.ls.refresh_token]
  ELSE [c |-> c, redirect |-> FALSE, handler |-> NoItem]

GenericError(op) ==
  CASE op = "login" -> "Login failed. Please try again."
    [] op = "register" -> "Registration failed. Please try again."
    [] op = "connectWallet" -> "Wallet login failed. Please try again."

\* login and connectWallet that record the error they caught
loginSettleUnderlying(c, op, resp) ==
  IF resp.kind = "data"
    THEN IF resp.success /\ resp.tokens # Null /\ resp.user # Null
           THEN storeAuth(c, resp.user, resp.tokens)
           ELSE dispatch(c, [type |-> "LOGIN_ERROR", payload |-> resp.message])
    ELSE dispatch(c, [type |-> "LOGIN_ERROR", payload |-> resp.kind])

\* login and connectWallet that put a success answer in memory only
loginSettleMemoryOnly(c, op, resp) ==
  IF resp.kind = "data"
    THEN IF resp.success /\ resp.tokens # Null /\ resp.user # Null
           THEN dispatch(c, [type |-> "LOGIN_SUCCESS",
                             payload |-> [user |-> resp.user, tokens |-> resp.tokens]])
           ELSE dispatch(c, [type |-> "LOGIN_ERROR", payload |-> resp.message])
    ELSE dispatch(c, [type |-> "LOGIN_ERROR", payload |-> GenericError(op)])

\* login and connectWallet after the await
loginSettle(c, op, resp) ==
  IF resp.kind = "data"
    THEN IF resp.success /\ resp.tokens # Null /\ resp.user # Null
           THEN storeAuth(c, resp.user, resp.tokens)
           ELSE dispatch(c, [type |-> "LOGIN_ERROR", payload |-> resp.message])
    ELSE dispatch(c, [type |-> "LOGIN_ERROR", payload |-> GenericError(op)])

\* register that takes a success answer the way login does
registerSettleLikeLogin(c, resp) ==
  IF resp.kind = "data"
    THEN IF resp.success /\ resp.tokens # Null /\ resp.user # Null
           THEN storeAuth(c, resp.user, resp.tokens)
           ELSE dispatch(c, [type |-> "LOGIN_ERROR", payload |-> resp.message])
    ELSE dispatch(c, [type |-> "LOGIN_ERROR", payload |-> GenericError("register")])

\* register that leaves the flag up when no tokens came with the success
registerSettleKeepsLoading(c, resp) ==
  IF resp.kind = "data"
    THEN IF resp.success /\ resp.user # Null
           THEN IF resp.tokens # Null
                  THEN storeAuth(c, resp.user, resp.tokens)
                  ELSE c
           ELSE dispatch(c, [type |-> "LOGIN_ERROR", payload |-> resp.message])
    ELSE dispatch(c, [type |-> "LOGIN_ERROR", payload |-> GenericError("register")])

\* register after the await
registerSettle(c, resp) ==
  IF resp.kind = "data"
    THEN IF resp.success /\ resp.user # Null
           THEN IF resp.tokens # Null
                  THEN storeAuth(c, resp.user, resp.tokens)
                  ELSE dispatch(c, [type |-> "SET_LOADING", payload |-> FALSE])
           ELSE dispatch(c, [type |-> "LOGIN_ERROR", payload |-> resp.message])
    ELSE dispatch(c, [type |-> "LOGIN_ERROR", payload |-> GenericError("register")])

\* refreshTokens after the await: its boolean result and the client after it
refreshResult(resp) == resp.kind = "data" /\ resp.success /\ resp.tokens # Null /\ resp.user # Null

refreshSettle(c, resp) ==
  IF refreshResult(resp) THEN storeAuth(c, resp.user, resp.tokens) ELSE clearAuth(c)

\* checkAuth that trusts the persisted session whatever the refresh returned
checkAuthResumeTrusting(c, refreshSuccess, user0, tokens0) ==
  LET c1 == dispatch(c, [type |-> "LOGIN_SUCCESS",
                         payload |-> [user |-> user0, tokens |-> tokens0]])
  IN dispatch(c1, [type |-> "SET_LOADING", payload |-> FALSE])

\* checkAuth after `await refreshTokens()`, with the user and tokens it read
\* from localStorage before the call
checkAuthResume(c, refreshSuccess, user0, tokens0) ==
  LET c1 == IF refreshSuccess
              THEN dispatch(c, [type |-> "LOGIN_SUCCESS",
                                payload |-> [user |-> user0, tokens |-> tokens0]])
              ELSE clearAuth(c)
  IN dispatch(c1, [type |-> "SET_LOADING", payload |-> FALSE])

\* settle with logout's clearAuth inside the try block instead of finally
settleLogoutInTry(c, call) ==
  CASE call.op \in {"login", "connectWallet"} -> loginSettle(c, call.op, call.resp)
    [] call.op = "register" -> registerSettle(c, call.resp)
    [] call.op = "refreshTokens" ->
         IF call.caller = "checkAuth"
           THEN checkAuthResume(refreshSettle(c, call.resp), refreshResult(call.resp),
                                call.user0, call.tokens0)
           ELSE refreshSettle(c, call.resp)
    [] call.op = "logout" -> IF call.resp.kind = "data" THEN clearAuth(c) ELSE c
    [] OTHER -> c

\* the caller's continuation for an Apollo operation
settle(c, call) ==
  CASE call.op \in {"login", "connectWallet"} -> loginSettle(c, call.op, call.resp)
    [] call.op = "register" -> registerSettle(c, call.resp)
    [] call.op = "refreshTokens" ->
         IF call.caller = "checkAuth"
           THEN checkAuthResume(refreshSettle(c, call.resp), refreshResult(call.resp),
                                call.user0, call.tokens0)
           ELSE refreshSettle(c, call.resp)
    [] call.op = "logout" -> clearAuth(c)
    [] OTHER -> c

\* what login, register and connectWallet return to their caller: the
\* mutation's result, or a failure with the generic text when it threw
AuthResponse(success, message, tokens, user) ==
  [success |-> success, message |-> message, tokens |-> tokens, user |-> user]
Thrown(message) == [success |-> FALSE, message |-> message]

returned(call) ==
  IF call.resp.kind = "data"
    THEN AuthResponse(call.resp.success, call.resp.message, call.resp.tokens, call.resp.user)
    ELSE Thrown(GenericError(call.op))

\* the Login and Register pages navigate on when the call returned success
handleLogin(call) == returned(call).success

\* checkAuth up to its first await, on a freshly mounted provider
storedTokens(store) ==
  [accessToken |-> store.access_token, refreshToken |-> store.refresh_token,
   tokenType |-> "bearer", expiresIn |-> 30 * 60]

checkAuthRefreshes(store) ==
  /\ store.access_token # NoItem /\ store.refresh_token # NoItem /\ store.user_data # NoData
  /\ JSONparses(store.user_data)

\* checkAuth whose catch of the parse error clears nothing
pageLoadKeepsUnparsed(store) ==
  LET mounted == [state |-> initialState, ls |-> AppMount(store)]
      c0 == dispatch(mounted, [type |-> "SET_LOADING", payload |-> TRUE])
      present == store.access_token # NoItem /\ store.refresh_token # NoItem
                 /\ store.user_data # NoData
  IN IF checkAuthRefreshes(store)
       THEN [c |-> c0,
             calls |-> Put(NoCalls,
                           Call("refreshTokens", 0, store.refresh_token, NoItem,
                                "checkAuth", JSONparse(store.user_data), storedTokens(store))),
             authorization |-> authLink(c0), mounted |-> mounted.state, stored |-> store]
     ELSE IF present
       THEN [c |-> dispatch(c0, [type |-> "SET_LOADING", payload |-> FALSE]),
             calls |-> NoCalls, authorization |-> NoHeader, mounted |-> mounted.state, stored |-> store]
     ELSE [c |-> dispatch(c0, [type |-> "SET_LOADING", payload |-> FALSE]),
           calls |-> NoCalls, authorization |-> NoHeader, mounted |-> mounted.state, stored |-> store]

pageLoad(store) ==
  LET mounted == [state |-> initialState, ls |-> AppMount(store)]
      c0 == dispatch(mounted, [type |-> "SET_LOADING", payload |-> TRUE])
      present == store.access_token # NoItem /\ store.refresh_token # NoItem
                 /\ store.user_data # NoData
  IN IF checkAuthRefreshes(store)
       THEN [c |-> c0,
             calls |-> Put(NoCalls,
                           Call("refreshTokens", 0, store.refresh_token, NoItem,
                                "checkAuth", JSONparse(store.user_data), storedTokens(store))),
             authorization |-> authLink(c0), mounted |-> mounted.state, stored |-> store]
     ELSE IF present
       THEN [c |-> dispatch(clearAuth(c0), [type |-> "SET_LOADING", payload |-> FALSE]),
             calls |-> NoCalls, authorization |-> NoHeader, mounted |-> mounted.state, stored |-> store]
     ELSE [c |-> dispatch(c0, [type |-> "SET_LOADING", payload |-> FALSE]),
           calls |-> NoCalls, authorization |-> NoHeader, mounted |-> mounted.state, stored |-> store]

\* ---------------------------------------------------------------- route guard
\* requiredRole is optional: NoRequiredRole is the prop left undefined; a given
\* prop is the set of the roles it lists (one role or an array of roles).
NoRequiredRole == [given |-> FALSE, roles |-> {}]
RequiredRole(roles) == [given |-> TRUE, roles |-> roles]

Spin == [action |-> "spin", to |-> NullStr, from |-> NullStr]
Navigate(to, from) == [action |-> "navigate", to |-> to, from |-> from]
Children == [action |-> "children", to |-> NullStr, from |-> NullStr]

hasRequiredRole(user, requiredRole) == user # Null /\ user.role \in requiredRole.roles

\* ProtectedRoute that checks the role only on routes that require authentication
ProtectedRouteRoleNeedsAuth(s, requireAuth, requiredRole, pathname) ==
  IF s.loading THEN Spin
  ELSE IF requireAuth /\ ~s.isAuthenticated THEN Navigate("/login", pathname)
  ELSE IF requireAuth /\ requiredRole.given /\ ~hasRequiredRole(s.user, requiredRole)
    THEN Navigate("/unauthorized", NullStr)
  ELSE IF ~requireAuth /\ s.isAuthenticated
          /\ (pathname = "/login" \/ pathname = "/register")
    THEN Navigate("/dashboard", NullStr)
  ELSE Children

ProtectedRoute(s, requireAuth, requiredRole, pathname) ==
  IF s.loading THEN Spin
  ELSE IF requireAuth /\ ~s.isAuthenticated THEN Navigate("/login", pathname)
  ELSE IF requiredRole.given /\ ~hasRequiredRole(s.user, requiredRole)
    THEN Navigate("/unauthorized", NullStr)
  ELSE IF ~requireAuth /\ s.isAuthenticated
          /\ (pathname = "/login" \/ pathname = "/register")
    THEN Navigate("/dashboard", NullStr)
  ELSE Children

\* the roles App passes to the guard of the /dashboard route
DashboardRequiredRole == RequiredRole({"admin", "moderator"})

\* AppLayout shows the Dashboard menu entry
canViewDashboard(user) == user # Null /\ (user.role = "ADMIN" \/ user.role = "MODERATOR")

\* ---------------------------------------------------------------- Init
Init ==
  /\ state = initialState
  /\ ls = AppMount(emptyStorage)
  /\ calls = NoCalls
  /\ srvVersion = [u \in Users |-> 0]
  /\ srvStore = [u \in Users |-> NoItem]
  /\ ev = Event("init", NoCall, FALSE)

\* ---------------------------------------------------------------- sends
Send(c) ==
  /\ HasFree(calls)
  /\ calls' = Put(calls, c)
  /\ ev' = [Event("send", NoCall, FALSE)
              EXCEPT !.authorization = authLink([state |-> state, ls |-> ls])]
  /\ UNCHANGED <<ls, srvVersion, srvStore>>

Login(u) ==
  /\ state' = authReducer(state, [type |-> "LOGIN_START"])
  /\ Send(Call("login", u, NoItem, NoItem, "user", Null, Null))

Register(u) ==
  /\ state' = authReducer(state, [type |-> "LOGIN_START"])
  /\ Send(Call("register", u, NoItem, NoItem, "user", Null, Null))

ConnectWallet(u) ==
  /\ state' = authReducer(state, [type |-> "LOGIN_START"])
  /\ Send(Call("connectWallet", u, NoItem, NoItem, "user", Null, Null))

Logout ==
  /\ state' = state
  /\ Send(Call("logout", 0, NoItem, ls.access_token, "user", Null, Null))

RefreshTokens ==
  /\ ls.refresh_token # NoItem
  /\ state' = state
  /\ Send(Call("refreshTokens", 0, ls.refresh_token, NoItem, "user", Null, Null))

Query ==
  /\ ls.access_token # NoItem
  /\ state' = state
  /\ Send(Call("query", 0, NoItem, NoItem, "user", Null, Null))

\* ---------------------------------------------------------------- browser
\* the theme switch: setDarkTheme(checked), then App's effect persists it
ToggleTheme ==
  /\ ls' = [ls EXCEPT !.darkTheme = IF @ = "true" THEN "false" ELSE "true"]
  /\ ev' = Other
  /\ UNCHANGED <<state, calls, srvVersion, srvStore>>

Reload ==
  LET pl == pageLoad(ls)
  IN /\ state' = pl.c.state
     /\ ls' = pl.c.ls
     /\ calls' = pl.calls
     /\ ev' = [Event("reload", NoCall, FALSE)
                 EXCEPT !.authorization = pl.authorization, !.mounted = pl.mounted,
                        !.stored = pl.stored]
     /\ UNCHANGED <<srvVersion, srvStore>>

\* ---------------------------------------------------------------- answers
\* logout's clearAuth supersedes the attempts still awaiting their answer
supersede(cs) ==
  LET S == BagToSet(cs)
      mark(c) == IF c.op \in AuthOps \cup RefreshOps
                   THEN [c EXCEPT !.superseded = TRUE] ELSE c
  IN [d \in {mark(c) : c \in S} |->
        BagCardinality([c \in {x \in S : mark(x) = d} |-> CopiesIn(c, cs)])]

\* a refresh carrying rt was answered with a new pair: the others carrying rt lost
outrace(cs, rt) ==
  LET S == BagToSet(cs)
      mark(c) == IF c.op \in RefreshOps /\ c.rt = rt
                   THEN [c EXCEPT !.raced = TRUE] ELSE c
  IN [d \in {mark(c) : c \in S} |->
        BagCardinality([c \in {x \in S : mark(x) = d} |-> CopiesIn(c, cs)])]

\* The pathname is whatever page the user is on when an answer arrives; the
\* error link reads it only for an answer with a GraphQL error.
AnyPath == "/dashboard"
PathsRead(kind) == IF kind = "gqlUnauth" THEN Paths ELSE {AnyPath}

\* The answer resp reaches the Apollo operation req while the user is on page
\* p: the error link runs, then the caller's continuation; a redirect assigned
\* on the way loads the page anew.
Receive(req, resp, p) ==
  LET call == [req EXCEPT !.phase = "answered", !.resp = resp]
      e == errorLink([state |-> state, ls |-> ls], p, resp)
      c2 == settle(e.c, call)
      sent == IF e.handler # NoItem
                THEN Put(Take(calls, req),
                         Call("handleTokenRefresh", 0, e.handler, NoItem, "errorLink",
                              Null, Null))
                ELSE Take(calls, req)
      pl == pageLoad(c2.ls)
  IN /\ ev' = [Event("recv", call, e.redirect)
                 EXCEPT !.authorization = IF e.redirect THEN pl.authorization ELSE NoHeader,
                        !.mounted = IF e.redirect THEN pl.mounted ELSE Null,
                        !.stored = IF e.redirect THEN pl.stored ELSE Null]
     /\ IF e.redirect
          THEN /\ state' = pl.c.state
               /\ ls' = pl.c.ls
               /\ calls' = pl.calls
          ELSE /\ state' = c2.state
               /\ ls' = c2.ls
               /\ calls' = IF call.op = "logout" THEN supersede(sent)
                           ELSE IF call.op = "refreshTokens" /\ refreshResult(resp)
                             THEN outrace(sent, call.rt)
                           ELSE sent

\* handleTokenRefresh after its fetch
HandlerReceive(req, resp) ==
  LET call == [req EXCEPT !.phase = "answered", !.resp = resp]
      ok == resp.kind = "data" /\ resp.success /\ resp.tokens # Null
      store == IF ok
                 THEN [ls EXCEPT !.access_token = resp.tokens.accessToken,
                                 !.refresh_token = resp.tokens.refreshToken]
                 ELSE localStorageClear(ls)
      pl == pageLoad(store)
  IN /\ ev' = [Event("recv", call, TRUE)
                 EXCEPT !.authorization = pl.authorization, !.mounted = pl.mounted,
                        !.stored = pl.stored]
     /\ state' = pl.c.state
     /\ ls' = pl.c.ls
     /\ calls' = pl.calls

\* ---------------------------------------------------------------- server
\* Each action is the server's handling of one request together with the
\* client's handling of the answer.

\* login / register / walletLogin accepted: a pair is issued and stored
LoginAccepted(req) ==
  /\ req.op \in AuthOps
  /\ LET u == req.who
         v == srvVersion[u] + 1
     IN /\ v <= MaxVersion
        /\ srvVersion' = [srvVersion EXCEPT ![u] = v]
        /\ srvStore' = [srvStore EXCEPT ![u] = RefreshTok(u, v)]
        /\ Receive(req, DataResp(TRUE, issue(u, v), UserRec(u), "Login successful"), AnyPath)

\* the message of the server's refusal: a validation or signature error
RefusalMessage(op) ==
  CASE op = "login" -> "Invalid credentials"
    [] op = "register" -> "Username already taken"
    [] op = "connectWallet" -> "Signature mismatch"

\* refused (success=false), or accepted with no pair (verification pending)
LoginRefused(req, verified) ==
  /\ req.op \in AuthOps
  /\ UNCHANGED <<srvVersion, srvStore>>
  /\ Receive(req, IF verified
                    THEN DataResp(TRUE, Null, UserRec(req.who), "Please verify your email")
                    ELSE DataResp(FALSE, Null, Null, RefusalMessage(req.op)),
             AnyPath)

rotated(rt) ==
  LET u == UserOf(rt)
  IN [version |-> [srvVersion EXCEPT ![u] = @ + 1],
      store |-> [srvStore EXCEPT ![u] = RefreshTok(u, srvVersion[u] + 1)],
      pair |-> issue(u, srvVersion[u] + 1),
      user |-> UserRec(u)]

Rejected == DataResp(FALSE, Null, Null, "Invalid refresh token")

\* refreshToken mutation sent by refreshTokens
Rotate(req) ==
  /\ req.op = "refreshTokens"
  /\ IF rotateAccepts(srvStore, req.rt)
       THEN /\ srvVersion[UserOf(req.rt)] < MaxVersion
            /\ srvVersion' = rotated(req.rt).version
            /\ srvStore' = rotated(req.rt).store
            /\ Receive(req, DataResp(TRUE, rotated(req.rt).pair, rotated(req.rt).user,
                                     "Token refreshed"), AnyPath)
       ELSE /\ UNCHANGED <<srvVersion, srvStore>>
            /\ Receive(req, Rejected, AnyPath)

\* refreshToken mutation sent by handleTokenRefresh (no tokenType, no user asked)
HandlerRotate(req) ==
  /\ req.op = "handleTokenRefresh"
  /\ IF rotateAccepts(srvStore, req.rt)
       THEN /\ srvVersion[UserOf(req.rt)] < MaxVersion
            /\ srvVersion' = rotated(req.rt).version
            /\ srvStore' = rotated(req.rt).store
            /\ HandlerReceive(req, DataResp(TRUE,
                                            [rotated(req.rt).pair EXCEPT !.tokenType = NullStr],
                                            Null, "Token refreshed"))
       ELSE /\ UNCHANGED <<srvVersion, srvStore>>
            /\ HandlerReceive(req, Rejected)

HandlerFetchFails(req) ==
  /\ req.op = "handleTokenRefresh"
  /\ UNCHANGED <<srvVersion, srvStore>>
  /\ HandlerReceive(req, ErrorResp("netErr"))

LogoutDone(req) ==
  /\ req.op = "logout"
  /\ srvStore' = IF req.bearer # NoItem /\ UserOf(req.bearer) \in DOMAIN srvStore
                   THEN [srvStore EXCEPT ![UserOf(req.bearer)] = NoItem]
                   ELSE srvStore
  /\ UNCHANGED srvVersion
  /\ Receive(req, DataResp(TRUE, Null, Null, "Logged out"), AnyPath)

QueryDone(req) ==
  /\ req.op = "query"
  /\ UNCHANGED <<srvVersion, srvStore>>
  /\ Receive(req, DataResp(TRUE, Null, Null, "ok"), AnyPath)

\* a GraphQL UNAUTHENTICATED error, an HTTP 401 or a transport failure
RequestFails(req, kind, p) ==
  /\ req.op \in ApolloOps
  /\ UNCHANGED <<srvVersion, srvStore>>
  /\ Receive(req, ErrorResp(kind), p)

\* the stored refresh token reaches the end of its lifetime
Expire(u) ==
  /\ srvStore[u] # NoItem
  /\ srvStore' = [srvStore EXCEPT ![u] = NoItem]
  /\ ev' = Other
  /\ UNCHANGED <<state, ls, calls, srvVersion>>

\* ---------------------------------------------------------------- Next
Next ==
  \/ \E u \in Users : Login(u)
  \/ \E u \in Users : Register(u)
  \/ \E u \in Users : ConnectWallet(u)
  \/ Logout
  \/ RefreshTokens
  \/ Query
  \/ Reload
  \/ \E req \in BagToSet(calls) : LoginAccepted(req)
  \/ \E req \in BagToSet(calls), verified \in BOOLEAN : LoginRefused(req, verified)
  \/ \E req \in BagToSet(calls) : Rotate(req)
  \/ \E req \in BagToSet(calls) : HandlerRotate(req)
  \/ \E req \in BagToSet(calls) : HandlerFetchFails(req)
  \/ \E req \in BagToSet(calls) : LogoutDone(req)
  \/ \E req \in BagToSet(calls) : QueryDone(req)
  \/ \E req \in BagToSet(calls), kind \in ErrorKinds :
       \E p \in PathsRead(kind) : RequestFails(req, kind, p)
  \/ \E u \in Users : Expire(u)

Spec == Init /\ [][Next]_vars

\* ---------------------------------------------------------------- fairness
\* Every server call eventually returns or throws: a login, register,
\* connectWallet or refresh mutation that awaits its answer gets one.
AttemptAnswered ==
  \E req \in BagToSet(calls) :
    /\ req.op \in AuthOps \cup {"refreshTokens"}
    /\ \/ LoginAccepted(req)
       \/ \E verified \in BOOLEAN : LoginRefused(req, verified)
       \/ Rotate(req)
       \/ \E kind \in ErrorKinds : \E p \in PathsRead(kind) : RequestFails(req, kind, p)

\* the attempts, the page load and their answers
FairNext ==
  \/ \E u \in Users : Login(u)
  \/ \E u \in Users : Register(u)
  \/ \E u \in Users : ConnectWallet(u)
  \/ Reload
  \/ \E req \in BagToSet(calls) : LoginAccepted(req)
  \/ \E req \in BagToSet(calls), verified \in BOOLEAN : LoginRefused(req, verified)
  \/ \E req \in BagToSet(calls) : Rotate(req)
  \/ \E req \in BagToSet(calls) : HandlerRotate(req)
  \/ \E req \in BagToSet(calls) : HandlerFetchFails(req)
  \/ \E req \in BagToSet(calls), kind \in ErrorKinds :
       \E p \in PathsRead(kind) : RequestFails(req, kind, p)

FairSpec == Init /\ [][FairNext]_vars /\ WF_vars(AttemptAnswered)

\* ---------------------------------------------------------------- two identities
\* One device, two identities the server knows: logins as either, requests
\* answered with an HTTP 401, both refresh paths and page loads.
IdentityUsers == {1, 2}

IdentityInit ==
  /\ state = initialState
  /\ ls = AppMount(emptyStorage)
  /\ calls = NoCalls
  /\ srvVersion = [u \in IdentityUsers |-> 0]
  /\ srvStore = [u \in IdentityUsers |-> NoItem]
  /\ ev = Event("init", NoCall, FALSE)

IdentityNext ==
  \/ \E u \in IdentityUsers : Login(u)
  \/ Query
  \/ Reload
  \/ \E req \in BagToSet(calls) : LoginAccepted(req)
  \/ \E req \in BagToSet(calls) : Rotate(req)
  \/ \E req \in BagToSet(calls) : HandlerRotate(req)
  \/ \E req \in BagToSet(calls) : QueryDone(req)
  \/ \E req \in BagToSet(calls) : RequestFails(req, "http401", AnyPath)

IdentitySpec == IdentityInit /\ [][IdentityNext]_vars

\* ---------------------------------------------------------------- route guard alone
\* The guard is a pure function of the session state and its props: it is
\* rendered here on every session state the provider can hold, with every
\* combination of props and pathname.
Roles == {"USER", "ADMIN", "MODERATOR"}
GuardPaths == {"/login", "/register", "/dashboard", "/profile"}
RequiredRoles ==
  {NoRequiredRole, RequiredRole({}), RequiredRole({"ADMIN"}),
   RequiredRole({"ADMIN", "MODERATOR"}), RequiredRole({"admin", "moderator"})}

GuardUser(role) == [id |-> 1, username |-> "alice", role |-> role, status |-> "ACTIVE"]

GuardStates ==
  {[initialState EXCEPT !.loading = l] : l \in BOOLEAN}
    \cup {[authReducer(initialState,
                       [type |-> "LOGIN_SUCCESS",
                        payload |-> [user |-> GuardUser(r), tokens |-> issue(1, 1)]])
             EXCEPT !.loading = l] : r \in Roles, l \in BOOLEAN}

GuardInit ==
  /\ state \in GuardStates
  /\ ls = AppMount(emptyStorage)
  /\ calls = NoCalls
  /\ srvVersion = [u \in Users |-> 0]
  /\ srvStore = [u \in Users |-> NoItem]
  /\ ev = Event("init", NoCall, FALSE)

Render(requireAuth, requiredRole, pathname) ==
  /\ ev' = [type |-> "guard", call |-> NoCall, redirected |-> FALSE,
            requireAuth |-> requireAuth, requiredRole |-> requiredRole,
            pathname |-> pathname,
            element |-> ProtectedRoute(state, requireAuth, requiredRole, pathname)]
  /\ UNCHANGED <<state, ls, calls, srvVersion, srvStore>>

GuardNext ==
  \E requireAuth \in BOOLEAN, requiredRole \in RequiredRoles, pathname \in GuardPaths :
    Render(requireAuth, requiredRole, pathname)

GuardSpec == GuardInit /\ [][GuardNext]_vars

\* ------------------------------------------ a server rejecting every access token
\* One login opens the session; from then on the API answers HTTP 401 to every
\* authenticated request while the token endpoint keeps rotating.
RejectingNext ==
  \/ \E u \in Users : srvVersion[u] = 0 /\ Login(u)
  \/ \E req \in BagToSet(calls) :
       req.op \in AuthOps /\ srvVersion[req.who] = 0 /\ LoginAccepted(req)
  \/ Query
  \/ Logout
  \/ Reload
  \/ \E req \in BagToSet(calls) : RequestFails(req, "http401", AnyPath)
  \/ \E req \in BagToSet(calls) : HandlerRotate(req)

RejectingSpec == Init /\ [][RejectingNext]_vars

\* ------------------------------------------ starting on what an earlier visit left
\* localStorage outlives the page: the application starts on any combination of
\* the keys, the user data possibly not JSON, while the server holds the
\* refresh token it issued or none.
Unparseable == <<"{">>
StoredSessions ==
  [access_token : {NoItem, AccessTok(1, 1)},
   refresh_token : {NoItem, RefreshTok(1, 1)},
   user_data : {NoData, JSONstringify(UserRec(1)), Unparseable},
   darkTheme : {NoTheme, "true", "false"}]

StorageInit ==
  /\ \E store \in StoredSessions :
       LET pl == pageLoad(store)
       IN /\ state = pl.c.state
          /\ ls = pl.c.ls
          /\ calls = pl.calls
          /\ ev = [Event("reload", NoCall, FALSE)
                     EXCEPT !.authorization = pl.authorization, !.mounted = pl.mounted,
                            !.stored = pl.stored]
  /\ srvVersion = [u \in Users |-> 1]
  /\ srvStore \in {[u \in Users |-> RefreshTok(u, 1)], [u \in Users |-> NoItem]}

StorageNext ==
  \/ ToggleTheme
  \/ Logout
  \/ Query
  \/ Reload
  \/ \E req \in BagToSet(calls) : Rotate(req)
  \/ \E req \in BagToSet(calls) : HandlerRotate(req)
  \/ \E req \in BagToSet(calls) : HandlerFetchFails(req)
  \/ \E req \in BagToSet(calls) : LogoutDone(req)
  \/ \E req \in BagToSet(calls) : QueryDone(req)
  \/ \E req \in BagToSet(calls), kind \in ErrorKinds :
       \E p \in PathsRead(kind) : RequestFails(req, kind, p)

StorageSpec == StorageInit /\ [][StorageNext]_vars

\* ---------------------------------------------------------------- reducer alone
\* authReducer applied to every action type on bounded session states
ReducerMessages == {"Invalid credentials", "Login failed. Please try again."}

ReducerStates ==
  {[s EXCEPT !.loading = l, !.error = e] :
     s \in {initialState,
            authReducer(initialState,
                        [type |-> "LOGIN_SUCCESS",
                         payload |-> [user |-> UserRec(1), tokens |-> issue(1, 1)]])},
     l \in BOOLEAN, e \in {NullStr} \cup ReducerMessages}

AuthActions ==
  {[type |-> "LOGIN_START"], [type |-> "LOGOUT"]}
    \cup {[type |-> "LOGIN_SUCCESS",
           payload |-> [user |-> UserRec(1), tokens |-> issue(1, v)]] : v \in 1..2}
    \cup {[type |-> "LOGIN_ERROR", payload |-> m] : m \in ReducerMessages}
    \cup {[type |-> "SET_LOADING", payload |-> b] : b \in BOOLEAN}
    \cup {[type |-> "SET_ERROR", payload |-> m] : m \in {NullStr} \cup ReducerMessages}
    \cup {[type |-> "UPDATE_USER", payload |-> [UserRec(1) EXCEPT !.status = "SUSPENDED"]]}

ReducerInit ==
  /\ state \in ReducerStates
  /\ ls = AppMount(emptyStorage)
  /\ calls = NoCalls
  /\ srvVersion = [u \in Users |-> 0]
  /\ srvStore = [u \in Users |-> NoItem]
  /\ ev = Event("init", NoCall, FALSE)

\* dispatch(action): React replaces the state by authReducer(state, action)
Dispatch(a) ==
  /\ state' = authReducer(state, a)
  /\ ev' = [type |-> "dispatch", call |-> NoCall, redirected |-> FALSE,
            action |-> a, before |-> state]
  /\ UNCHANGED <<ls, calls, srvVersion, srvStore>>

ReducerNext == \E a \in AuthActions : Dispatch(a)

ReducerSpec == ReducerInit /\ [][ReducerNext]_vars

\* ================================================================ properties
Anonymous == ~state.isAuthenticated /\ state.user = Null /\ state.tokens = Null

SessionKeysAbsent ==
  ls.access_token = NoItem /\ ls.refresh_token = NoItem /\ ls.user_data = NoData

Attempts == BagToSet(calls)

\* number of login / register / connectWallet / refresh requests awaiting an answer
AttemptsInFlight ==
  LET S == InFlight(AuthOps \cup RefreshOps)
  IN BagCardinality([c \in S |-> CopiesIn(c, calls)])

\* the step just taken handled the answer to a request of one of ops
Handled(ops) == ev.type = "recv" /\ ev.call.op \in ops

\* the answer carried success=true and a token pair
Succeeded(call) == call.resp.kind = "data" /\ call.resp.success /\ call.resp.tokens # Null

\* the step just taken mounted the page anew (checkAuth ran)
PageLoaded == ev.type = "reload" \/ (ev.type = "recv" /\ ev.redirected)

\* C1: at most one login / register / connectWallet / refresh (checkAuth's,
\* refreshTokens or the 401 handler's) awaits its server answer at any time.
C1_SingleFlight == AttemptsInFlight <= 1

\* C2: a success answer that arrives for an attempt which logout's clearAuth
\* superseded leaves SessionState anonymous and the three durable keys absent.
C2_NoResurrection ==
  (Handled(AuthOps \cup RefreshOps) /\ ev.call.superseded /\ Succeeded(ev.call))
    => (Anonymous /\ SessionKeysAbsent)

\* C3: isAuthenticated holds exactly when user and tokens are both present and
\* the tokens are not stale (no other refresh token has been stored since).
Stale(tokens) == ls.refresh_token # NoItem /\ tokens.refreshToken # ls.refresh_token

C3_AuthIffPresentFresh ==
  state.isAuthenticated
    <=> (state.user # Null /\ state.tokens # Null /\ ~Stale(state.tokens))

\* C4: whenever SessionState.tokens takes a new non-null value, that value is
\* the tokens object of the success answer handled in that step.
C4_TokensFromResponse ==
  [][(state'.tokens # Null /\ state'.tokens # state.tokens)
       => (ev'.type = "recv" /\ Full(ev'.call.resp)
           /\ state'.tokens = ev'.call.resp.tokens)]_vars

\* number of requests in cs sent by one of ops and carrying refresh token rt
Carrying(cs, ops, rt) ==
  LET S == {c \in BagToSet(cs) : c.op \in ops /\ c.rt = rt}
  IN BagCardinality([c \in S |-> CopiesIn(c, cs)])

RefreshCount(cs) ==
  LET S == {c \in BagToSet(cs) : c.op \in RefreshOps}
  IN BagCardinality([c \in S |-> CopiesIn(c, cs)])

Refused(call) ==
  \/ call.op = "refreshTokens" /\ ~refreshResult(call.resp)
  \/ call.op = "handleTokenRefresh" /\ ~Succeeded(call)

\* C5: the step that handles anything but a success answer to a refresh (either
\* refresh path) ends with the session anonymous and the durable session keys
\* absent, and sends no request carrying the refused refresh token.
C5_RefreshRejectClears ==
  [][(ev'.type = "recv" /\ ev'.call.op \in RefreshOps /\ Refused(ev'.call))
       => /\ Anonymous' /\ SessionKeysAbsent'
          /\ Carrying(calls', RefreshOps, ev'.call.rt)
               < Carrying(calls, RefreshOps, ev'.call.rt)]_vars

\* C6: once logout has its answer, success or failure, SessionState is the
\* initial anonymous state (no error recorded) and the three durable keys are absent.
C6_LogoutClears ==
  Handled({"logout"}) => (state = initialState /\ SessionKeysAbsent)

C6_Witness ==
  /\ Handled({"logout"})
  /\ ev.call.bearer # NoItem
  /\ ev.call.resp.kind = "netErr"
  /\ state = initialState /\ SessionKeysAbsent

\* the step sends, from handleTokenRefresh, a refresh request carrying the
\* refresh token that was stored when the step began
HandlerSendsStored ==
  Carrying(calls', {"handleTokenRefresh"}, ls.refresh_token)
    > Carrying(calls, {"handleTokenRefresh"}, ls.refresh_token)

NotAuthenticatedAnswer(ops, kinds) ==
  /\ ev'.type = "recv"
  /\ ev'.call.op \in ops
  /\ ev'.call.resp.kind \in kinds
  /\ ls.refresh_token # NoItem

C8_StartupRevalidates ==
  /\ (Handled({"refreshTokens"}) /\ ev.call.caller = "checkAuth" /\ state.isAuthenticated)
       => refreshResult(ev.call.resp)
  /\ (PageLoaded /\ ls.access_token # NoItem /\ ls.refresh_token # NoItem)
       => \E c \in Attempts : /\ c.op = "refreshTokens" /\ c.caller = "checkAuth"
                              /\ c.rt = ls.refresh_token

\* C9: after a success answer to a refresh (refreshTokens, also when checkAuth
\* called it), SessionState.tokens and the durable access and refresh token are
\* the new pair, and the refresh token that was sent is held nowhere.
C9_RefreshReplacesPair ==
  (Handled({"refreshTokens"}) /\ refreshResult(ev.call.resp))
    => /\ state.isAuthenticated
       /\ state.tokens = ev.call.resp.tokens
       /\ ls.access_token = ev.call.resp.tokens.accessToken
       /\ ls.refresh_token = ev.call.resp.tokens.refreshToken
       /\ state.tokens.refreshToken # ev.call.rt
       /\ ls.refresh_token # ev.call.rt

\* C10: when refresh requests carrying the same refresh token are pending
\* together and one is answered with a new pair, every other one the server
\* answers is Rejected.
C10_NoDoubleRotation ==
  [][(/\ ev'.type = "recv"
      /\ ev'.call.op \in RefreshOps
      /\ ev'.call.raced
      /\ ev'.call.resp.kind = "data")
       => ev'.call.resp = Rejected]_vars

C10_Witness ==
  /\ Handled(RefreshOps)
  /\ ev.call.raced
  /\ ev.call.resp = Rejected

\* C11: once login or connectWallet has handled an answer with success=true,
\* tokens and user, the session is authenticated with exactly that user and
\* pair, loading=false, error=null, and the three durable keys hold the same
\* access token, refresh token and (serialised) user.
C11_LoginSuccessStores ==
  (Handled({"login", "connectWallet"}) /\ Full(ev.call.resp))
    => /\ state.isAuthenticated
       /\ state.user = ev.call.resp.user
       /\ state.tokens = ev.call.resp.tokens
       /\ ~state.loading
       /\ state.error = NullStr
       /\ ls.access_token = ev.call.resp.tokens.accessToken
       /\ ls.refresh_token = ev.call.resp.tokens.refreshToken
       /\ JSONparses(ls.user_data)
       /\ JSONparse(ls.user_data) = ev.call.resp.user

C11_Witness ==
  /\ Handled({"connectWallet"})
  /\ Full(ev.call.resp)
  /\ state.isAuthenticated
  /\ ls.refresh_token = ev.call.resp.tokens.refreshToken

\* the attempt was answered with success=false or its mutation threw
AttemptFailed(call) == call.resp.kind # "data" \/ ~call.resp.success

\* the reason the attempt's handler records for a failure
FailureReason(call) ==
  IF call.resp.kind = "data" THEN call.resp.message ELSE GenericError(call.op)

\* the route guard sends every access to a route that requires authentication
\* to /login
GuardAnonymous(s) ==
  \A p \in Paths :
    ProtectedRoute(s, TRUE, NoRequiredRole, p) = Navigate("/login", p)

\* C12: the step that handles a failed login / register / connectWallet
\* (success=false or a thrown error) ends with isAuthenticated=false, user and
\* tokens null, loading=false, error holding the failure reason, no token
\* written to durable storage, and the route guard treating the session as
\* anonymous.
C12_FailureRecorded ==
  [][(ev'.type = "recv" /\ ev'.call.op \in AuthOps /\ AttemptFailed(ev'.call))
       => /\ Anonymous'
          /\ ~state'.loading
          /\ state'.error = FailureReason(ev'.call)
          /\ ls'.access_token \in {ls.access_token, NoItem}
          /\ ls'.refresh_token \in {ls.refresh_token, NoItem}
          /\ GuardAnonymous(state')]_vars

\* C13: the step in which register handles an answer with success=true and a
\* user ends, when the answer carries tokens, authenticated with that user and
\* pair in memory and in durable storage; when it carries none, with
\* loading=false, isAuthenticated and the tokens in memory as they were (none
\* added) and durable storage untouched.
C13_RegisterBranches ==
  [][(/\ ev'.type = "recv" /\ ev'.call.op = "register"
      /\ ev'.call.resp.kind = "data" /\ ev'.call.resp.success
      /\ ev'.call.resp.user # Null)
       => IF ev'.call.resp.tokens # Null
            THEN /\ state'.isAuthenticated /\ ~state'.loading
                 /\ state'.user = ev'.call.resp.user
                 /\ state'.tokens = ev'.call.resp.tokens
                 /\ ls'.access_token = ev'.call.resp.tokens.accessToken
                 /\ ls'.refresh_token = ev'.call.resp.tokens.refreshToken
                 /\ ls'.user_data = JSONstringify(ev'.call.resp.user)
            ELSE /\ ~state'.loading
                 /\ state'.isAuthenticated = state.isAuthenticated
                 /\ state'.tokens = state.tokens
                 /\ ls' = ls]_vars

C13_Witness ==
  /\ Handled({"register"})
  /\ ev.call.resp.kind = "data" /\ ev.call.resp.success
  /\ ev.call.resp.user # Null /\ ev.call.resp.tokens = Null
  /\ ~state.loading /\ ~state.isAuthenticated /\ SessionKeysAbsent

\* the guard was rendered in the step just taken
Rendered == ev.type = "guard"

\* roles are required and the user's role is not among them
RoleMismatch == ev.requiredRole.given /\ ~hasRequiredRole(state.user, ev.requiredRole)

OnLoginOrRegister == ev.pathname \in {"/login", "/register"}

\* C14 (as stated): the guard's action is the decision table's, whose rows for
\* routes that do not require authentication do not look at the roles.
C14_DecisionTable ==
  Rendered =>
    ev.element =
      (IF state.loading THEN Spin
       ELSE IF ev.requireAuth
         THEN IF ~state.isAuthenticated THEN Navigate("/login", ev.pathname)
              ELSE IF RoleMismatch THEN Navigate("/unauthorized", NullStr)
              ELSE Children
       ELSE IF state.isAuthenticated
         THEN IF OnLoginOrRegister THEN Navigate("/dashboard", NullStr) ELSE Children
       ELSE Children)

\* C14 (amended): as the table, except that required roles are checked on
\* every route once the login redirect has not fired: with roles given and
\* not matched, a route that does not require authentication redirects to
\* /unauthorized, whether or not the session is authenticated.
C14_DecisionTableRolesFirst ==
  Rendered =>
    ev.element =
      (IF state.loading THEN Spin
       ELSE IF ev.requireAuth /\ ~state.isAuthenticated
         THEN Navigate("/login", ev.pathname)
       ELSE IF RoleMismatch THEN Navigate("/unauthorized", NullStr)
       ELSE IF ev.requireAuth THEN Children
       ELSE IF state.isAuthenticated /\ OnLoginOrRegister
         THEN Navigate("/dashboard", NullStr)
       ELSE Children)

C14_Witness ==
  /\ Rendered
  /\ ~state.loading /\ ~ev.requireAuth /\ ~state.isAuthenticated
  /\ RoleMismatch
  /\ ev.element = Navigate("/unauthorized", NullStr)

\* C15: a page load that finds the three keys persisted leaves the controller
\* refreshing (loading, checkAuth's refresh pending with the stored refresh
\* token); once that refresh is answered with anything but a new pair, as it
\* is for an expired token, the session is anonymous, the durable keys are
\* absent, and the guard redirects every access to a protected route to /login.
C15_ExpiredAtRestart ==
  /\ (PageLoaded /\ checkAuthRefreshes(ls))
       => /\ state.loading
          /\ \E c \in Attempts : /\ c.op = "refreshTokens" /\ c.caller = "checkAuth"
                                 /\ c.rt = ls.refresh_token
  /\ (Handled({"refreshTokens"}) /\ ev.call.caller = "checkAuth"
        /\ ~refreshResult(ev.call.resp))
       => /\ Anonymous /\ ~state.loading
          /\ SessionKeysAbsent
          /\ GuardAnonymous(state)

C15_Witness ==
  /\ Handled({"refreshTokens"}) /\ ev.call.caller = "checkAuth"
  /\ ev.call.resp.kind = "data" /\ ~ev.call.resp.success
  /\ srvStore[UserOf(ev.call.rt)] = NoItem
  /\ Anonymous /\ SessionKeysAbsent

\* the step just taken sent a request through the Apollo link chain
SentThroughApollo == ev.authorization # NoHeader

\* C16: every request sent through the Apollo link chain carries 'Bearer '
\* followed by the access token that is in durable storage when it is sent,
\* and the empty string when none is stored; so a token that was cleared from
\* storage or replaced in it is attached to no later request.
C16_BearerFromStorage ==
  SentThroughApollo
    => ev.authorization =
         (IF ls.access_token # NoItem THEN Bearer(ls.access_token) ELSE EmptyHeader)

C16_Witness ==
  /\ SentThroughApollo
  /\ ls.access_token # NoItem
  /\ state.tokens # Null /\ state.tokens.accessToken # ls.access_token
  /\ ev.authorization = Bearer(ls.access_token)

C18_ServerMessageVerbatim ==
  [][(/\ ev'.type = "recv" /\ ev'.call.op \in AuthOps
      /\ ev'.call.resp.kind = "data" /\ ~ev'.call.resp.success)
       => /\ state'.error = ev'.call.resp.message
          /\ returned(ev'.call).message = ev'.call.resp.message
          /\ ~returned(ev'.call).success
          /\ ~ev'.redirected
          /\ BagCardinality(calls') = BagCardinality(calls) - 1
          /\ \A c \in BagToSet(calls') : CopiesIn(c, calls') <= CopiesIn(c, calls)]_vars

C18_Witness ==
  /\ Handled({"connectWallet"})
  /\ ev.call.resp.kind = "data" /\ ~ev.call.resp.success
  /\ state.error = "Signature mismatch"
  /\ returned(ev.call).message = "Signature mismatch"

\* C19: the step that handles a refused or failed answer to a refresh which
\* lost the race (another refresh carrying the same token was answered with a
\* new pair while it was pending) leaves the durable session keys and the
\* session in memory as they were.
C19_RaceLoserKeepsSession ==
  [][(ev'.type = "recv" /\ ev'.call.op \in RefreshOps /\ ev'.call.raced
        /\ Refused(ev'.call))
       => /\ ls'.access_token = ls.access_token
          /\ ls'.refresh_token = ls.refresh_token
          /\ ls'.user_data = ls.user_data
          /\ state'.isAuthenticated = state.isAuthenticated
          /\ state'.user = state.user
          /\ state'.tokens = state.tokens]_vars

\* C20: whenever no request is in flight, an authenticated session's tokens
\* are the durable access and refresh token, and an unauthenticated session
\* has none of the three durable keys.
C20_MemoryDurableAgree ==
  calls = NoCalls
    => IF state.isAuthenticated
         THEN /\ state.tokens # Null
              /\ ls.access_token = state.tokens.accessToken
              /\ ls.refresh_token = state.tokens.refreshToken
         ELSE SessionKeysAbsent

\* C21: the user and the token pair the client holds belong to one identity,
\* in SessionState and in durable storage.
C21_UserOwnsTokens ==
  /\ (state.user # Null /\ state.tokens # Null)
       => /\ UserOf(state.tokens.accessToken) = state.user.id
          /\ UserOf(state.tokens.refreshToken) = state.user.id
  /\ (ls.user_data # NoData /\ JSONparses(ls.user_data))
       => /\ ls.access_token # NoItem => UserOf(ls.access_token) = JSONparse(ls.user_data).id
          /\ ls.refresh_token # NoItem => UserOf(ls.refresh_token) = JSONparse(ls.user_data).id

\* the guard of a route that requires authentication shows only the pending
\* indicator
GuardPending(s) ==
  \A p \in Paths : ProtectedRoute(s, TRUE, NoRequiredRole, p) = Spin

CheckAuthPending ==
  \E c \in Attempts : c.op = "refreshTokens" /\ c.caller = "checkAuth"

\* C22: on a page load with a persisted session, the guard of a protected
\* route shows the pending indicator at the provider's first render, and keeps
\* showing it while checkAuth's refresh is pending.
C22_GuardPendingDuringStartup ==
  /\ (PageLoaded /\ checkAuthRefreshes(ls)) => GuardPending(ev.mounted)
  /\ CheckAuthPending => GuardPending(state)

\* C23: whenever login, connectWallet or register (answered with tokens)
\* returns success=true to the page, which then navigates on, the session is
\* authenticated and no failure is recorded.
C23_ReturnAgreesWithSession ==
  (/\ Handled(AuthOps)
   /\ handleLogin(ev.call)
   /\ ev.call.op = "register" => ev.call.resp.tokens # Null)
    => (state.isAuthenticated /\ state.error = NullStr)

\* the guard was rendered as App mounts it on the /dashboard route
DashboardRendered ==
  /\ Rendered
  /\ ev.pathname = "/dashboard" /\ ev.requireAuth
  /\ ev.requiredRole = DashboardRequiredRole

\* C24: for an authenticated user whose session is not loading, the Dashboard
\* menu entry is shown exactly when the guard of the /dashboard route renders
\* its children, and a user with role ADMIN or MODERATOR is not redirected to
\* /unauthorized.
C24_MenuMatchesGuard ==
  (DashboardRendered /\ state.isAuthenticated /\ ~state.loading)
    => /\ canViewDashboard(state.user) <=> (ev.element = Children)
       /\ state.user.role \in {"ADMIN", "MODERATOR"}
            => ev.element # Navigate("/unauthorized", NullStr)

\* number of requests in cs sent by handleTokenRefresh
HandlerCount(cs) ==
  LET S == {c \in BagToSet(cs) : c.op = "handleTokenRefresh"}
  IN BagCardinality([c \in S |-> CopiesIn(c, cs)])

Http401Answer == ev'.type = "recv" /\ ev'.call.op \in ApolloOps /\ ev'.call.resp.kind = "http401"

HandlerAnswer == ev'.type = "recv" /\ ev'.call.op = "handleTokenRefresh"

VersionOf(rt) == rt % 10

\* the stored refresh token is one a handler refresh wrote (under RejectingSpec
\* login issues version 1 only, and nothing but the handler rotates)
RefreshedByHandler(rt) == rt # NoItem /\ VersionOf(rt) >= 2

\* C26: a 401 that follows a successful 401-triggered refresh starts no further
\* refresh: the step ends with the session terminated (session keys absent,
\* page redirected) and no refresh request of the handler in flight.
C26_RetryBoundedToOnce ==
  [][(Http401Answer /\ RefreshedByHandler(ls.refresh_token))
       => (HandlerCount(calls') = 0 /\ SessionKeysAbsent' /\ ev'.redirected)]_vars

\* the step handled the answer to login, register, connectWallet or to the
\* refresh checkAuth awaited
AttemptAnswer ==
  /\ ev'.type = "recv"
  /\ \/ ev'.call.op \in AuthOps
     \/ ev'.call.op = "refreshTokens" /\ ev'.call.caller = "checkAuth"

\* C27: the step that handles the answer of login, register, connectWallet or
\* of checkAuth's refresh, whatever the answer (success, refusal, success
\* without tokens, GraphQL error, HTTP 401, transport failure), ends with
\* loading=false; and, every awaited answer arriving eventually, loading=true
\* always leads to loading=false.
C27_LoadingComesDown ==
  /\ [][AttemptAnswer => ~state'.loading]_vars
  /\ (state.loading ~> ~state.loading)

\* register answered success without tokens: the SET_LOADING branch
C27_Witness ==
  /\ Handled({"register"})
  /\ ev.call.resp.kind = "data" /\ ev.call.resp.success /\ ev.call.resp.tokens = Null
  /\ ~state.loading

\* the page was loaded on access token, refresh token and user data all
\* stored, the user data not JSON
LoadedOnUnparseable ==
  /\ PageLoaded
  /\ ev.stored.access_token # NoItem /\ ev.stored.refresh_token # NoItem
  /\ ev.stored.user_data # NoData
  /\ ~JSONparses(ev.stored.user_data)

\* C28: a page load that finds access token, refresh token and user data
\* stored but the user data not parseable sends no refresh request, removes
\* the three durable session keys and ends anonymous with loading=false.
C28_UnparseableUserData ==
  LoadedOnUnparseable
    => (RefreshCount(calls) = 0 /\ SessionKeysAbsent /\ Anonymous /\ ~state.loading)

C28_Witness ==
  /\ LoadedOnUnparseable
  /\ ev.stored.refresh_token = srvStore[UserOf(ev.stored.refresh_token)]
  /\ calls = NoCalls /\ SessionKeysAbsent /\ state = initialState

\* the step handled an answer on one of the paths that clear the session:
\* logout, a failed refresh of the provider, a GraphQL UNAUTHENTICATED error,
\* a failed refresh of the 401 handler
ProviderClears ==
  /\ ev'.type = "recv"
  /\ \/ ev'.call.op = "logout"
     \/ ev'.call.op = "refreshTokens" /\ ~refreshResult(ev'.call.resp)
     \/ ev'.call.op \in ApolloOps /\ ev'.call.resp.kind = "gqlUnauth"

HandlerClears ==
  ev'.type = "recv" /\ ev'.call.op = "handleTokenRefresh" /\ ~Succeeded(ev'.call)

\* C29: a step on any clearing path leaves the persisted darkTheme preference
\* as it was.
C29_ClearKeepsOtherKeys ==
  [][(ProviderClears \/ HandlerClears) => ls'.darkTheme = ls.darkTheme]_vars

Dispatched(type) == ev.type = "dispatch" /\ ev.action.type = type

\* C30: LOGIN_START sets loading=true and error=null and leaves
\* isAuthenticated, user and tokens as they were; SET_LOADING changes nothing
\* but loading (to its payload), SET_ERROR nothing but error (to its payload).
C30_StartAndSettersFrame ==
  /\ Dispatched("LOGIN_START")
       => /\ state.loading /\ state.error = NullStr
          /\ state.isAuthenticated = ev.before.isAuthenticated
          /\ state.user = ev.before.user
          /\ state.tokens = ev.before.tokens
  /\ Dispatched("SET_LOADING")
       => state = [ev.before EXCEPT !.loading = ev.action.payload]
  /\ Dispatched("SET_ERROR")
       => state = [ev.before EXCEPT !.error = ev.action.payload]

\* LOGIN_START dispatched on an authenticated session that carried an error
C30_Witness ==
  /\ Dispatched("LOGIN_START")
  /\ ev.before.isAuthenticated /\ ev.before.error # NullStr /\ ~ev.before.loading
  /\ state.isAuthenticated /\ state.user = UserRec(1) /\ state.loading

====
